---- MODULE Spec2Model ----
(***************************************************************************)
(* Alternating-price order execution controller (SchwabTrader and          *)
(* SchwabTraderLevel2): the execution loop, stop/pause/resume, the pricing *)
(* rule, and the venue the gateway calls act on.                           *)
(*                                                                         *)
(* Prices are integers in units of 0.00001, so that round(price, 4) and    *)
(* round(price, 2) are real roundings.  An order id is the index of the    *)
(* order in the venue's order list, 0 stands for None.                     *)
(*                                                                         *)
(* The loop task is modelled by its position pc: each loop action resumes  *)
(* the coroutine from the await it is suspended at, with the result of the *)
(* awaited call, and runs it to the next await.  While pc names a gateway  *)
(* call, that call is in flight; its effect at the venue happens when it   *)
(* returns.                                                                *)
(***************************************************************************)
EXTENDS Integers, Sequences, FiniteSets

VARIABLES
    engine,             \* "L1": class SchwabTrader, "L2": class SchwabTraderLevel2
    side,               \* self.side
    quantity,           \* self.quantity
    filled_quantity,    \* self.filled_quantity
    remaining_quantity, \* self.remaining_quantity
    current_order_id,   \* self.current_order_id (0 = None)
    current_state,      \* self.current_state
    is_running,         \* self.is_running
    is_paused,          \* self.is_paused
    pc,                 \* the await order_management_loop is suspended at
    book,               \* local book of calculate_next_price, with the state it priced
    new_price,          \* local initial_price / new_price of the loop
    next_state,         \* local next_state of the loop
    req,                \* arguments of the place_order call in flight
    stop_pc,            \* the await stop() is suspended at
    stop_target,        \* the order id stop() passed to cancel_order
    orders,             \* the venue: the orders created for this account
    polled_id,          \* the order whose status the loop processed last (0 = none yet)
    books,              \* Level2BookHandler.books: symbol -> bids and asks, price -> size
    feed_pc,            \* the statement _process_book_data is at ("idle": not running)
    feed_item,          \* the content item _process_book_data is processing
    books_before,       \* books when the handler in progress was called
    last_read,          \* what the latest reader of the book got
    use_level2,         \* self.use_level2
    snapshot,           \* the get_order_book call of the reader: its await and result
    self_symbol,        \* self.symbol ("" = None)
    sink,               \* the log_callback start_order was given
    log,                \* the events the loop has emitted in its current iteration
    orphans             \* loop tasks still alive whose handle start_order overwrote

bookVars == <<books, feed_pc, feed_item, books_before, last_read>>

(* The variables of the Level 2 book, and the rest, for the frames of the  *)
(* actions of the other                                                    *)
level2Vars == <<bookVars, use_level2, snapshot>>

executionVars ==
    <<engine, side, quantity, filled_quantity, remaining_quantity,
      current_order_id, current_state, is_running, is_paused, pc, book,
      new_price, next_state, req, stop_pc, stop_target, orders, polled_id,
      self_symbol, sink, log, orphans>>

vars == <<engine, side, quantity, filled_quantity, remaining_quantity,
          current_order_id, current_state, is_running, is_paused, pc, book,
          new_price, next_state, req, stop_pc, stop_target, orders, polled_id,
          bookVars, use_level2, snapshot, self_symbol, sink, log, orphans>>

----------------------------------------------------------------------------
(* Bounds of the model *)

MaxQty == 2

MaxOrders == 2

(* The largest levels argument readers pass to get_book_depth, besides its *)
(* default                                                                 *)
MaxLevels == 3

DefaultLevels == 5

(* Program constants, in units of 0.00001 *)

Dollar == 100000

Cent == 1000

SubCent == 10

AT_BOOK == "at_book"

OFFSET_TICK == "offset_tick"

OrderStates == {AT_BOOK, OFFSET_TICK}

Sides == {"BUY", "SELL"}

(* Top-of-book quotes the market-data source may return: a sub-dollar      *)
(* quote, a quote that straddles 1.00, and 10.00 / 10.05.                  *)
Quotes ==
    { [kind |-> "quote", bid |-> 50000,   ask |-> 50010],
      [kind |-> "quote", bid |-> 99990,   ask |-> 100000],
      [kind |-> "quote", bid |-> 1000000, ask |-> 1005000] }

NoneResp == [kind |-> "none"]

RaiseResp == [kind |-> "raise"]

NoBook == [bid |-> 0, ask |-> 0, tick_size |-> 0, state |-> "none"]

NoReq == [quantity |-> 0, price |-> 0]

----------------------------------------------------------------------------
(* Pure functions *)

(* Python round(x, n) on a decimal value: nearest multiple of m, a tie to  *)
(* the even multiple.                                                      *)
RoundTo(p, m) ==
    LET r  == p % m
        lo == p - r
    IN  IF 2 * r < m THEN lo
        ELSE IF 2 * r > m THEN lo + m
        ELSE IF (lo \div m) % 2 = 0 THEN lo ELSE lo + m

Round4(p) == RoundTo(p, 10)

Round2(p) == RoundTo(p, 1000)

TickSizeAboveDollar(price) == IF price > Dollar THEN Cent ELSE SubCent

TickSize(price) == IF price >= Dollar THEN Cent ELSE SubCent

GetOrderBookCrossed(quote) ==
    [bid |-> quote.ask, ask |-> quote.bid, tick_size |-> TickSize(quote.bid)]

(* The book get_order_book makes of a quote *)
GetOrderBook(quote) ==
    [bid |-> quote.bid, ask |-> quote.ask, tick_size |-> TickSize(quote.bid)]

(* calculate_next_price with the SELL offset taken off the ask *)
CalcNextPriceSellBelow(sd, state, bk) ==
    IF sd = "BUY"
    THEN IF state = AT_BOOK
         THEN [price |-> Round4(bk.bid), next_state |-> OFFSET_TICK]
         ELSE [price |-> Round4(bk.bid - bk.tick_size), next_state |-> AT_BOOK]
    ELSE IF state = AT_BOOK
         THEN [price |-> Round4(bk.ask), next_state |-> OFFSET_TICK]
         ELSE [price |-> Round4(bk.ask - bk.tick_size), next_state |-> AT_BOOK]

CalcNextPrice(sd, state, bk) ==
    IF sd = "BUY"
    THEN IF state = AT_BOOK
         THEN [price |-> Round4(bk.bid), next_state |-> OFFSET_TICK]
         ELSE [price |-> Round4(bk.bid - bk.tick_size), next_state |-> AT_BOOK]
    ELSE IF state = AT_BOOK
         THEN [price |-> Round4(bk.ask), next_state |-> OFFSET_TICK]
         ELSE [price |-> Round4(bk.ask + bk.tick_size), next_state |-> AT_BOOK]

PlaceOrderPrice(e, price) == IF e = "L2" THEN Round4(price) ELSE Round2(price)

----------------------------------------------------------------------------
(* The venue *)

OrderIds == 1..Len(orders)

Working(k) == orders[k].status = "WORKING"

NewOrder(qty, state, acc) ==
    [qty |-> qty, filled |-> 0, status |-> "WORKING", ostate |-> state, acc |-> acc]

RECURSIVE SumFilled(_)
SumFilled(n) == IF n = 0 THEN 0 ELSE orders[n].filled + SumFilled(n - 1)

VenueFilledTotal == SumFilled(Len(orders))

(* The venue fills n more units of a working order *)
VenueFill(k, n) ==
    /\ k \in OrderIds
    /\ Working(k)
    /\ n >= 1
    /\ orders[k].filled + n <= orders[k].qty
    /\ orders' = [orders EXCEPT ![k].filled = @ + n,
                                ![k].status = IF orders[k].filled + n = orders[k].qty
                                              THEN "FILLED" ELSE "WORKING"]
    /\ UNCHANGED <<level2Vars, self_symbol, sink, orphans, log,
                   engine, side, quantity, filled_quantity, remaining_quantity,
                   current_order_id, current_state, is_running, is_paused, pc,
                   book, new_price, next_state, req, stop_pc, stop_target,
                   polled_id>>

(* The statuses the venue gives an order it ends on its own; the loop     *)
(* treats REJECTED and CANCELED like EXPIRED                               *)
VenueEndStatuses == {"EXPIRED"}

(* The venue ends a working order on its own *)
VenueEnd(k, st) ==
    /\ k \in OrderIds
    /\ Working(k)
    /\ st \in VenueEndStatuses
    /\ orders' = [orders EXCEPT ![k].status = st]
    /\ UNCHANGED <<level2Vars, self_symbol, sink, orphans, log,
                   engine, side, quantity, filled_quantity, remaining_quantity,
                   current_order_id, current_state, is_running, is_paused, pc,
                   book, new_price, next_state, req, stop_pc, stop_target,
                   polled_id>>

(* cancel_order(id) at the venue: ok says whether the venue answers 200 *)
CancelEffect(ords, id, ok) ==
    IF ok /\ id \in 1..Len(ords) /\ ords[id].status = "WORKING"
    THEN [ords EXCEPT ![id].status = "CANCELED"]
    ELSE ords

(* The answers cancel_order can get for order id *)
CancelResponses(id) ==
    {[kind |-> "fail"], RaiseResp} \cup
    (IF id \in OrderIds /\ Working(id) THEN {[kind |-> "ok"]} ELSE {})

(* The answers place_order can get *)
PlaceResponses ==
    {NoneResp, RaiseResp} \cup
    (IF Len(orders) < MaxOrders THEN {[kind |-> "accepted"]} ELSE {})

(* The answers get_order_status can get *)
StatusResponses == {NoneResp, RaiseResp, [kind |-> "status"]}

(* The answers get_order_book can get *)
BookResponses == {NoneResp, RaiseResp} \cup Quotes

----------------------------------------------------------------------------
(* The Level 2 book (class Level2BookHandler) *)

(* An empty dict *)
EmptyDict == [x \in {} |-> 0]

(* No content item is being processed *)
NoItem == [key |-> "", fields |-> {}, BOOK_BID |-> << >>, BOOK_ASK |-> << >>]

(* last_read and snapshot hold what the latest reader got: there is none   *)
(* once the feed has moved on or another reader has run                    *)
NoRead == [op |-> "none"]

NoSnapshot == [pc |-> "idle"]

(* The keys content items come with, and the symbols readers ask for *)
FeedKeys == {"aapl", "MSFT", ""}

ReadSymbols == {"aapl", "AAPL", "MSFT"}

(* str.upper on the symbols and sides of the model *)
Upper(symbol) ==
    CASE symbol = "aapl" -> "AAPL"
      [] symbol = "buy"  -> "BUY"
      [] symbol = "sell" -> "SELL"
      [] OTHER -> symbol

(* The level lists a side of a content item can carry: empty, one level at *)
(* 1.0000, three unsorted levels around 1.0000, and a list with a level    *)
(* without price key and a price that comes twice; has_price says whether  *)
(* the level has its price key, numeric whether float and int take its     *)
(* values                                                                  *)
LevelLists ==
    { << >>,
      << [has_price |-> TRUE, numeric |-> TRUE, price |-> 100000, volume |-> 2] >>,
      << [has_price |-> TRUE, numeric |-> TRUE, price |-> 99990, volume |-> 1],
         [has_price |-> TRUE, numeric |-> TRUE, price |-> 100010, volume |-> 2],
         [has_price |-> TRUE, numeric |-> TRUE, price |-> 100000, volume |-> 1] >>,
      << [has_price |-> TRUE, numeric |-> TRUE, price |-> 100010, volume |-> 1],
         [has_price |-> FALSE, numeric |-> TRUE, price |-> 0, volume |-> 2],
         [has_price |-> TRUE, numeric |-> TRUE, price |-> 100010, volume |-> 2] >> }

(* A level list with a level whose price or volume is not a number: float  *)
(* or int raises on it                                                     *)
MalformedLists ==
    { << [has_price |-> TRUE, numeric |-> TRUE, price |-> 100000, volume |-> 1],
         [has_price |-> TRUE, numeric |-> FALSE, price |-> 0, volume |-> 0] >> }

(* The content items: fields holds which of BOOK_BID and BOOK_ASK the item *)
(* has                                                                     *)
FeedItems ==
    { item \in [key : FeedKeys, fields : SUBSET {"BOOK_BID", "BOOK_ASK"},
                BOOK_BID : LevelLists, BOOK_ASK : LevelLists] :
        /\ "BOOK_BID" \notin item.fields => item.BOOK_BID = << >>
        /\ "BOOK_ASK" \notin item.fields => item.BOOK_ASK = << >>
        /\ item.key = "" => item.BOOK_BID = item.BOOK_ASK }

(* Content items with both sides of which one has a malformed level *)
MalformedItems ==
    { item \in [key : {"aapl"}, fields : {{"BOOK_BID", "BOOK_ASK"}},
                BOOK_BID : LevelLists \cup MalformedLists,
                BOOK_ASK : LevelLists \cup MalformedLists] :
        (item.BOOK_BID \in MalformedLists) # (item.BOOK_ASK \in MalformedLists) }

(* The stream handlers _process_book_data is called from *)
Exchanges == {"NYSE", "NASDAQ", "OPTIONS"}

(* d[k] = v on a dict *)
Put(d, k, v) == [x \in DOMAIN d \cup {k} |-> IF x = k THEN v ELSE d[x]]

(* The dict comprehension over a level list: levels without the price key  *)
(* are skipped, a later level overwrites an earlier one of the same price  *)
RECURSIVE DictOf(_)
DictOf(levels) ==
    IF levels = << >> THEN EmptyDict
    ELSE LET n    == Len(levels)
             rest == DictOf(SubSeq(levels, 1, n - 1))
         IN  IF ~levels[n].has_price THEN rest
             ELSE Put(rest, levels[n].price, levels[n].volume)

(* The dict comprehension over a level list runs through: no level with a  *)
(* price key makes float or int raise                                      *)
Converts(levels) ==
    \A i \in 1..Len(levels) : levels[i].has_price => levels[i].numeric

SideMergedInto(old, levels) ==
    LET new == DictOf(levels)
    IN  [x \in DOMAIN old \cup DOMAIN new |->
            IF x \in DOMAIN new THEN new[x] ELSE old[x]]

(* The value assigned to a side of a book that held old *)
SideAssigned(old, levels) == DictOf(levels)

(* self.books[symbol]: the defaultdict makes the entry of a new symbol *)
BookOf(bks, symbol) ==
    IF symbol \in DOMAIN bks THEN bks[symbol]
    ELSE [bids |-> EmptyDict, asks |-> EmptyDict]

(* self.books[symbol]['bids'] = ... when the item carries BOOK_BID *)
AssignBids(bks, item) ==
    LET symbol == Upper(item.key)
        bk     == BookOf(bks, symbol)
    IN  IF "BOOK_BID" \notin item.fields THEN bks
        ELSE Put(bks, symbol, [bids |-> SideAssigned(bk.bids, item.BOOK_BID),
                               asks |-> bk.asks])

(* self.books[symbol]['asks'] = ... when the item carries BOOK_ASK *)
AssignAsks(bks, item) ==
    LET symbol == Upper(item.key)
        bk     == BookOf(bks, symbol)
    IN  IF "BOOK_ASK" \notin item.fields THEN bks
        ELSE Put(bks, symbol, [bids |-> bk.bids,
                               asks |-> SideAssigned(bk.asks, item.BOOK_ASK)])

(* max and min over the keys of a dict *)
MaxKey(S) == CHOOSE x \in S : \A y \in S : y <= x

MinKey(S) == CHOOSE x \in S : \A y \in S : x <= y

TopOfBookLowestBid(bks, sym) ==
    LET symbol == Upper(sym)
    IN  IF symbol \notin DOMAIN bks THEN NoneResp
        ELSE IF DOMAIN bks[symbol].bids = {} \/ DOMAIN bks[symbol].asks = {}
        THEN NoneResp
        ELSE LET best_bid_price == MinKey(DOMAIN bks[symbol].bids)
                 best_ask_price == MinKey(DOMAIN bks[symbol].asks)
             IN  [kind |-> "top",
                  bid |-> best_bid_price, ask |-> best_ask_price,
                  bid_size |-> bks[symbol].bids[best_bid_price],
                  ask_size |-> bks[symbol].asks[best_ask_price]]

GetTopOfBook(bks, sym) ==
    LET symbol == Upper(sym)
    IN  IF symbol \notin DOMAIN bks THEN NoneResp
        ELSE IF DOMAIN bks[symbol].bids = {} \/ DOMAIN bks[symbol].asks = {}
        THEN NoneResp
        ELSE LET best_bid_price == MaxKey(DOMAIN bks[symbol].bids)
                 best_ask_price == MinKey(DOMAIN bks[symbol].asks)
             IN  [kind |-> "top",
                  bid |-> best_bid_price, ask |-> best_ask_price,
                  bid_size |-> bks[symbol].bids[best_bid_price],
                  ask_size |-> bks[symbol].asks[best_ask_price]]

(* sorted(d.items(), key=price, reverse=True) and sorted(d.items(), key=price) *)
RECURSIVE SortedDescending(_)
SortedDescending(d) ==
    IF DOMAIN d = {} THEN << >>
    ELSE LET m == MaxKey(DOMAIN d)
         IN  << <<m, d[m]>> >> \o SortedDescending([x \in DOMAIN d \ {m} |-> d[x]])

RECURSIVE SortedAscending(_)
SortedAscending(d) ==
    IF DOMAIN d = {} THEN << >>
    ELSE LET m == MinKey(DOMAIN d)
         IN  << <<m, d[m]>> >> \o SortedAscending([x \in DOMAIN d \ {m} |-> d[x]])

(* rows[:levels] for levels >= 0 *)
SliceTo(rows, levels) ==
    SubSeq(rows, 1, IF levels < Len(rows) THEN levels ELSE Len(rows))

BookDepthUncut(bks, sym, levels) ==
    LET symbol == Upper(sym)
    IN  IF symbol \notin DOMAIN bks THEN [bids |-> << >>, asks |-> << >>]
        ELSE [bids |-> SortedDescending(bks[symbol].bids),
              asks |-> SortedAscending(bks[symbol].asks)]

GetBookDepth(bks, sym, levels) ==
    LET symbol == Upper(sym)
    IN  IF symbol \notin DOMAIN bks THEN [bids |-> << >>, asks |-> << >>]
        ELSE [bids |-> SliceTo(SortedDescending(bks[symbol].bids), levels),
              asks |-> SliceTo(SortedAscending(bks[symbol].asks), levels)]

----------------------------------------------------------------------------
(* The controller *)

Init ==
    /\ engine \in {"L1", "L2"}
    /\ side = "none"
    /\ quantity = 0
    /\ filled_quantity = 0
    /\ remaining_quantity = 0
    /\ current_order_id = 0
    /\ current_state = OFFSET_TICK
    /\ is_running = FALSE
    /\ is_paused = FALSE
    /\ pc = "idle"
    /\ book = NoBook
    /\ new_price = 0
    /\ next_state = "none"
    /\ req = NoReq
    /\ stop_pc = "idle"
    /\ stop_target = 0
    /\ orders = << >>
    /\ polled_id = 0
    /\ books = EmptyDict
    /\ feed_pc = "idle"
    /\ feed_item = NoItem
    /\ books_before = EmptyDict
    /\ last_read = NoRead
    /\ use_level2 = FALSE
    /\ snapshot = NoSnapshot
    /\ self_symbol = ""
    /\ sink = "discard"
    /\ log = {}
    /\ orphans = 0

(* The locals of the loop are dead once an iteration has ended *)
ClearLocals ==
    /\ book' = NoBook
    /\ new_price' = 0
    /\ next_state' = "none"
    /\ req' = NoReq

(* A loop task that has been created and has not ended *)
LoopAlive == pc \notin {"idle", "done"}

(* start_order(symbol, side, quantity, log_callback): the fields are set   *)
(* and a loop task is created, whose handle replaces the one of the task   *)
(* before.  A task that is still alive then goes on without a handle; the  *)
(* model counts it and follows the new task.                               *)
StartOrderCall(sym, sd, q, log_callback) ==
    /\ self_symbol' = Upper(sym)
    /\ side' = Upper(sd)
    /\ quantity' = q
    /\ filled_quantity' = 0
    /\ remaining_quantity' = q
    /\ sink' = log_callback
    /\ log' = {}
    /\ orphans' = IF LoopAlive THEN orphans + 1 ELSE orphans
    /\ pc' = "created"
    /\ ClearLocals
    /\ UNCHANGED <<level2Vars, engine, current_order_id, current_state, is_running,
                   is_paused, stop_pc, stop_target, orders, polled_id>>

(* The first start_order of a controller, with a log_callback that keeps   *)
(* nothing                                                                 *)
StartOrder(sd, q) ==
    /\ pc = "idle"
    /\ StartOrderCall("aapl", sd, q, "discard")

PauseHaltingLoop ==
    /\ is_paused' = TRUE
    /\ is_running' = FALSE
    /\ UNCHANGED <<level2Vars, self_symbol, sink, orphans, log,
                   engine, side, quantity, filled_quantity, remaining_quantity,
                   current_order_id, current_state, pc, book,
                   new_price, next_state, req, stop_pc, stop_target, orders,
                   polled_id>>

Pause ==
    /\ is_paused' = TRUE
    /\ UNCHANGED <<level2Vars, self_symbol, sink, orphans, log,
                   engine, side, quantity, filled_quantity, remaining_quantity,
                   current_order_id, current_state, is_running, pc, book,
                   new_price, next_state, req, stop_pc, stop_target, orders,
                   polled_id>>

Resume ==
    /\ is_paused' = FALSE
    /\ UNCHANGED <<level2Vars, self_symbol, sink, orphans, log,
                   engine, side, quantity, filled_quantity, remaining_quantity,
                   current_order_id, current_state, is_running, pc, book,
                   new_price, next_state, req, stop_pc, stop_target, orders,
                   polled_id>>

(* log_callback(...): the events go to the sink when it keeps them *)
Emit(events) == log' = IF sink = "record" THEN log \cup events ELSE log

(* The events of the loop, by the line that emits them *)
NoDataErrorEvent == {"error_no_data"}

InitialPlacingEvents == {"using_source", "placing_initial"}

InitialFailedEvent == {"error_initial_place"}

OrderPlacedEvent == {"order_placed"}

FillEvent == {"fill"}

FullyFilledEvent == {"fully_filled"}

OrderStatusEvent == {"order_status"}

NoDataWarningNone == {}

NoDataWarning == {"warning_no_data"}

ReplacingEvent == {"replacing"}

OrderReplacedEvent == {"order_replaced"}

ReplaceFailedWarningNone == {}

ReplaceFailedWarning == {"warning_replace_failed"}

ErrorEventNone == {}

ErrorEvent == {"error"}

LoopStoppedEvent == {"loop_stopped"}

(* The statuses the loop reports when a poll shows them *)
ReportedStatuses == {"CANCELED", "REJECTED", "EXPIRED"}

(* The loop leaves through its finally block *)
LoopExit ==
    /\ is_running' = FALSE
    /\ pc' = "done"
    /\ ClearLocals

OrderQuantityTotal == quantity

(* The quantity the loop gives place_order and replace_order *)
OrderQuantity == remaining_quantity

(* calculate_next_price got a book: the loop prices with current_state and *)
(* goes on to the gateway call named by nextpc                             *)
PriceAndGo(quote, nextpc) ==
    LET bk == GetOrderBook(quote)
        c  == CalcNextPrice(side, current_state, bk)
    IN  /\ book' = [bid |-> bk.bid, ask |-> bk.ask, tick_size |-> bk.tick_size,
                    state |-> current_state]
        /\ new_price' = c.price
        /\ next_state' = c.next_state
        /\ req' = [quantity |-> OrderQuantity,
                   price |-> PlaceOrderPrice(engine, c.price)]
        /\ pc' = nextpc

InitialStateLeft == current_state

(* current_state at the start of the loop *)
InitialState == OFFSET_TICK

(* The task starts running: up to the first get_order_book *)
LoopBegin ==
    /\ pc = "created"
    /\ is_running' = TRUE
    /\ current_state' = InitialState
    /\ pc' = "init_book"
    /\ UNCHANGED <<level2Vars, self_symbol, sink, orphans, log,
                   engine, side, quantity, filled_quantity, remaining_quantity,
                   current_order_id, is_paused, book, new_price, next_state, req,
                   stop_pc, stop_target, orders, polled_id>>

(* The initial calculate_next_price returns; on a price the initial place  *)
(* is issued                                                               *)
InitBookReturn(r) ==
    /\ pc = "init_book"
    /\ IF r.kind = "quote"
       THEN /\ PriceAndGo(r, "init_place")
            /\ UNCHANGED is_running
       ELSE LoopExit
    /\ UNCHANGED <<level2Vars, self_symbol, sink, orphans,
                   engine, side, quantity, filled_quantity, remaining_quantity,
                   current_order_id, current_state, is_paused, stop_pc,
                   stop_target, orders, polled_id>>
    /\ Emit(CASE r.kind = "quote" -> InitialPlacingEvents
              [] r.kind = "none"  -> NoDataErrorEvent \cup LoopStoppedEvent
              [] OTHER            -> ErrorEvent \cup LoopStoppedEvent)

InitialStateKept == current_state

(* current_state once the initial order has been placed *)
InitialStateAdvanced == next_state

(* The initial place_order returns *)
InitPlaceReturn(r) ==
    /\ pc = "init_place"
    /\ CASE r.kind = "accepted" ->
              /\ orders' = Append(orders, NewOrder(req.quantity, book.state, TRUE))
              /\ current_order_id' = Len(orders) + 1
              /\ current_state' = InitialStateAdvanced
              /\ pc' = "sleep"
              /\ ClearLocals
              /\ UNCHANGED is_running
         [] r.kind = "none" ->
              /\ current_order_id' = 0
              /\ LoopExit
              /\ UNCHANGED <<orders, current_state>>
         [] OTHER ->
              /\ LoopExit
              /\ UNCHANGED <<orders, current_order_id, current_state>>
    /\ UNCHANGED <<level2Vars, self_symbol, sink, orphans,
                   engine, side, quantity, filled_quantity, remaining_quantity,
                   is_paused, stop_pc, stop_target, polled_id>>
    /\ Emit(CASE r.kind = "accepted" -> OrderPlacedEvent
              [] r.kind = "none"     -> InitialFailedEvent \cup LoopStoppedEvent
              [] OTHER               -> ErrorEvent \cup LoopStoppedEvent)

(* A sleep ends and the while condition is tested: exit, a paused cycle,   *)
(* or the status poll of an active cycle                                   *)
LoopConditionIgnoringStop == remaining_quantity > 0

(* The while condition of the loop *)
LoopCondition == is_running /\ remaining_quantity > 0

AfterTopAlwaysPoll == "poll"

(* The paused check at the top of a cycle: a paused cycle sleeps and goes  *)
(* back to the while condition, an active one polls the order status       *)
AfterTop == IF is_paused THEN "sleep" ELSE "poll"

LoopWake ==
    /\ pc = "sleep"
    /\ IF ~LoopCondition
       THEN LoopExit
       ELSE /\ pc' = AfterTop
            /\ UNCHANGED <<is_running, book, new_price, next_state, req>>
    /\ UNCHANGED <<level2Vars, self_symbol, sink, orphans,
                   engine, side, quantity, filled_quantity, remaining_quantity,
                   current_order_id, current_state, is_paused, stop_pc,
                   stop_target, orders, polled_id>>
    /\ IF ~LoopCondition THEN Emit(LoopStoppedEvent)
       ELSE IF AfterTop = "poll" THEN log' = {}
       ELSE UNCHANGED log

(* filled_quantity after a poll that reported more than it holds *)
ReportedFillAccumulated(filled_qty) == filled_quantity + filled_qty

ReportedFill(filled_qty) == filled_qty

(* remaining_quantity for the new filled_quantity *)
RemainingAfterDelta(filled) == remaining_quantity - filled

RemainingAfter(filled) == quantity - filled

(* The test that breaks out of the loop after a fill *)
NeverFullyFilled(remaining) == FALSE

FullyFilled(remaining) == remaining = 0

(* get_order_status returns *)
PollReturn(r) ==
    /\ pc = "poll"
    /\ CASE r.kind = "status" ->
              LET filled_qty == orders[current_order_id].filled
              IN  /\ polled_id' = current_order_id
                  /\ IF filled_qty > filled_quantity
                     THEN /\ filled_quantity' = ReportedFill(filled_qty)
                          /\ remaining_quantity' = RemainingAfter(filled_quantity')
                          /\ IF FullyFilled(remaining_quantity')
                             THEN LoopExit
                             ELSE /\ pc' = "book"
                                  /\ UNCHANGED <<is_running, book, new_price,
                                                 next_state, req>>
                     ELSE /\ pc' = "book"
                          /\ UNCHANGED <<filled_quantity, remaining_quantity,
                                         is_running, book, new_price, next_state,
                                         req>>
         [] r.kind = "none" ->
              /\ pc' = "book"
              /\ UNCHANGED <<filled_quantity, remaining_quantity, polled_id,
                             is_running, book, new_price, next_state, req>>
         [] OTHER ->
              /\ LoopExit
              /\ UNCHANGED <<filled_quantity, remaining_quantity, polled_id>>
    /\ UNCHANGED <<level2Vars, self_symbol, sink, orphans,
                   engine, side, quantity, current_order_id, current_state,
                   is_paused, stop_pc, stop_target, orders>>
    /\ Emit(CASE r.kind = "status" ->
                   LET o == orders[current_order_id]
                   IN  IF o.filled > filled_quantity
                       THEN FillEvent \cup
                            (IF FullyFilled(RemainingAfter(ReportedFill(o.filled)))
                             THEN FullyFilledEvent \cup LoopStoppedEvent
                             ELSE IF o.status \in ReportedStatuses
                             THEN OrderStatusEvent ELSE {})
                       ELSE IF o.status \in ReportedStatuses
                            THEN OrderStatusEvent ELSE {}
              [] r.kind = "none" -> {}
              [] OTHER -> ErrorEvent \cup LoopStoppedEvent)

NoDataFatal == LoopExit

(* The cycle that got no price: sleep(1) and continue *)
NoDataRetry ==
    /\ pc' = "sleep"
    /\ UNCHANGED <<is_running, book, new_price, next_state, req>>

(* calculate_next_price of a cycle returns; on a price replace_order is    *)
(* called and issues its cancel                                            *)
BookReturn(r) ==
    /\ pc = "book"
    /\ CASE r.kind = "quote" ->
              /\ PriceAndGo(r, "cancel")
              /\ UNCHANGED is_running
         [] r.kind = "none" -> NoDataRetry
         [] OTHER -> LoopExit
    /\ UNCHANGED <<level2Vars, self_symbol, sink, orphans,
                   engine, side, quantity, filled_quantity, remaining_quantity,
                   current_order_id, current_state, is_paused, stop_pc,
                   stop_target, orders, polled_id>>
    /\ Emit(CASE r.kind = "quote" -> ReplacingEvent
              [] r.kind = "none"  -> NoDataWarning
              [] OTHER            -> ErrorEvent \cup LoopStoppedEvent)

(* The cancel of replace_order returns; its result is not looked at and    *)
(* the place is issued                                                     *)
CancelReturn(r) ==
    /\ pc = "cancel"
    /\ IF r.kind = "raise"
       THEN /\ LoopExit
            /\ UNCHANGED orders
       ELSE /\ orders' = CancelEffect(orders, current_order_id, r.kind = "ok")
            /\ pc' = "place"
            /\ UNCHANGED <<is_running, book, new_price, next_state, req>>
    /\ UNCHANGED <<level2Vars, self_symbol, sink, orphans,
                   engine, side, quantity, filled_quantity, remaining_quantity,
                   current_order_id, current_state, is_paused, stop_pc,
                   stop_target, polled_id>>
    /\ Emit(IF r.kind = "raise" THEN ErrorEvent \cup LoopStoppedEvent ELSE {})

(* current_state after the place of a replace returned new_order_id *)
StateAlwaysAdvanced(new_order_id) == next_state

StateAfterReplace(new_order_id) ==
    IF new_order_id # 0 THEN next_state ELSE current_state

(* The place of replace_order returns *)
PlaceReturn(r) ==
    /\ pc = "place"
    /\ CASE r.kind = "accepted" ->
              /\ orders' = Append(orders, NewOrder(req.quantity, book.state, TRUE))
              /\ current_order_id' = Len(orders) + 1
              /\ current_state' = StateAfterReplace(Len(orders) + 1)
              /\ pc' = "sleep"
              /\ ClearLocals
              /\ UNCHANGED is_running
         [] r.kind = "none" ->
              /\ current_state' = StateAfterReplace(0)
              /\ pc' = "sleep"
              /\ ClearLocals
              /\ UNCHANGED <<orders, current_order_id, is_running>>
         [] OTHER ->
              /\ LoopExit
              /\ UNCHANGED <<orders, current_order_id, current_state>>
    /\ UNCHANGED <<level2Vars, self_symbol, sink, orphans,
                   engine, side, quantity, filled_quantity, remaining_quantity,
                   is_paused, stop_pc, stop_target, polled_id>>
    /\ Emit(CASE r.kind = "accepted" -> OrderReplacedEvent
              [] r.kind = "none"     -> ReplaceFailedWarning
              [] OTHER               -> ErrorEvent \cup LoopStoppedEvent)

----------------------------------------------------------------------------
(* stop() *)

(* What the gateway call the loop was suspended at did at the venue, when  *)
(* the task is cancelled under it: the request was delivered or it was not *)
InFlightEffect(ords, delivered) ==
    IF ~delivered THEN ords
    ELSE IF pc \in {"init_place", "place"} /\ Len(ords) < MaxOrders
         THEN Append(ords, NewOrder(req.quantity, book.state, FALSE))
    ELSE IF pc = "cancel"
         THEN CancelEffect(ords, current_order_id, TRUE)
    ELSE ords

(* order_loop_task.cancel(): the loop is thrown out of its await and       *)
(* leaves through finally, which clears is_running (running is its value   *)
(* before); a task that has not run yet never runs                         *)
TaskCancel(ords, delivered, running) ==
    IF pc \in {"idle", "done"}
    THEN /\ orders' = ords
         /\ is_running' = running
         /\ UNCHANGED <<pc, book, new_price, next_state, req, log>>
    ELSE /\ orders' = InFlightEffect(ords, delivered)
         /\ is_running' = IF pc = "created" THEN running ELSE FALSE
         /\ pc' = "done"
         /\ ClearLocals
         /\ Emit(IF pc = "created" THEN {} ELSE LoopStoppedEvent)

(* stop() is called: up to its cancel_order, or to its end when there is   *)
(* no order id                                                             *)
StopCall(delivered) ==
    /\ stop_pc = "idle"
    /\ IF current_order_id # 0
       THEN /\ is_running' = FALSE
            /\ stop_pc' = "cancel"
            /\ stop_target' = current_order_id
            /\ UNCHANGED <<pc, book, new_price, next_state, req, orders, log>>
       ELSE /\ TaskCancel(orders, delivered, FALSE)
            /\ UNCHANGED <<stop_pc, stop_target>>
    /\ UNCHANGED <<level2Vars, self_symbol, sink, orphans,
                   engine, side, quantity, filled_quantity, remaining_quantity,
                   current_order_id, current_state, is_paused, polled_id>>

(* The cancel_order of stop() returns and the task is cancelled; an error  *)
(* of the gateway leaves stop() before that                                *)
StopCancelReturn(r, delivered) ==
    /\ stop_pc = "cancel"
    /\ stop_pc' = "idle"
    /\ stop_target' = 0
    /\ IF r.kind = "raise"
       THEN UNCHANGED <<pc, book, new_price, next_state, req, orders, is_running,
                        log>>
       ELSE TaskCancel(CancelEffect(orders, stop_target, r.kind = "ok"),
                       delivered, is_running)
    /\ UNCHANGED <<level2Vars, self_symbol, sink, orphans,
                   engine, side, quantity, filled_quantity, remaining_quantity,
                   current_order_id, current_state, is_paused, polled_id>>

----------------------------------------------------------------------------
(* The specification *)

LoopStep ==
    \/ LoopBegin
    \/ \E r \in BookResponses : InitBookReturn(r)
    \/ \E r \in PlaceResponses : InitPlaceReturn(r)
    \/ LoopWake
    \/ \E r \in StatusResponses : PollReturn(r)
    \/ \E r \in BookResponses : BookReturn(r)
    \/ \E r \in CancelResponses(current_order_id) : CancelReturn(r)
    \/ \E r \in PlaceResponses : PlaceReturn(r)

Next ==
    \/ \E sd \in Sides, q \in 1..MaxQty : StartOrder(sd, q)
    \/ Pause
    \/ Resume
    \/ LoopStep
    \/ \E d \in BOOLEAN : StopCall(d)
    \/ \E r \in CancelResponses(stop_target), d \in BOOLEAN : StopCancelReturn(r, d)
    \/ \E k \in OrderIds, n \in 1..MaxQty : VenueFill(k, n)
    \/ \E k \in OrderIds, st \in VenueEndStatuses : VenueEnd(k, st)

Spec == Init /\ [][Next]_vars

TypeOK ==
    /\ engine \in {"L1", "L2"}
    /\ side \in Sides \cup {"none"}
    /\ quantity \in 0..MaxQty
    /\ filled_quantity \in 0..MaxQty
    /\ remaining_quantity \in 0..MaxQty
    /\ current_order_id \in 0..MaxOrders
    /\ current_state \in OrderStates
    /\ is_running \in BOOLEAN
    /\ is_paused \in BOOLEAN
    /\ pc \in {"idle", "created", "init_book", "init_place", "sleep", "poll",
               "book", "cancel", "place", "done"}
    /\ stop_pc \in {"idle", "cancel"}
    /\ Len(orders) <= MaxOrders

----------------------------------------------------------------------------
(* The execution left alone: no stop, no pause, a gateway that answers     *)
(* every status poll and quote and raises no error (it may still refuse a  *)
(* cancel or a place), and a fairly scheduled loop task                    *)

LoopStepAnswered ==
    \/ LoopBegin
    \/ \E r \in Quotes : InitBookReturn(r)
    \/ \E r \in PlaceResponses \ {RaiseResp} : InitPlaceReturn(r)
    \/ LoopWake
    \/ PollReturn([kind |-> "status"])
    \/ \E r \in Quotes : BookReturn(r)
    \/ \E r \in CancelResponses(current_order_id) \ {RaiseResp} : CancelReturn(r)
    \/ \E r \in PlaceResponses \ {RaiseResp} : PlaceReturn(r)

LiveNext ==
    \/ \E sd \in Sides, q \in 1..MaxQty : StartOrder(sd, q)
    \/ LoopStepAnswered
    \/ \E k \in OrderIds, n \in 1..MaxQty : VenueFill(k, n)

LiveSpec == Init /\ [][LiveNext]_vars /\ WF_vars(LoopStepAnswered)

(* The execution with stop(), pause() and every gateway answer, at a venue *)
(* that fills nothing: the event loop resumes a coroutine once the call it *)
(* awaits has returned, and every gateway call returns                     *)
StopNext ==
    \/ \E sd \in Sides, q \in 1..MaxQty : StartOrder(sd, q)
    \/ Pause
    \/ Resume
    \/ LoopStep
    \/ \E d \in BOOLEAN : StopCall(d)
    \/ \E r \in CancelResponses(stop_target), d \in BOOLEAN : StopCancelReturn(r, d)

StopLiveSpec ==
    /\ Init
    /\ [][StopNext]_vars
    /\ WF_vars(LoopStep)
    /\ WF_vars(\E r \in CancelResponses(stop_target), d \in BOOLEAN :
                  StopCancelReturn(r, d))

(* The execution started with a log_callback that keeps what it is given,  *)
(* as the one of the user interface does: the loop with every gateway      *)
(* answer, pause() and resume(), and the venue                             *)
StartOrderLogged(sd, q) ==
    /\ pc = "idle"
    /\ StartOrderCall("aapl", sd, q, "record")

LogNext ==
    \/ \E sd \in Sides, q \in 1..MaxQty : StartOrderLogged(sd, q)
    \/ Pause
    \/ Resume
    \/ LoopStep
    \/ \E k \in OrderIds, n \in 1..MaxQty : VenueFill(k, n)
    \/ \E k \in OrderIds, st \in VenueEndStatuses : VenueEnd(k, st)

LogSpec == Init /\ [][LogNext]_vars

(* The execution of a BUY over a book that stays at 50.00 / 50.02, with a  *)
(* gateway that answers every call and accepts every order it has room for *)
TraceQty == 100

TraceQuantities == (1..MaxQty) \cup {TraceQty}

TraceQuote == [kind |-> "quote", bid |-> 50 * Dollar, ask |-> 50 * Dollar + 2 * Cent]

(* The venue fills an order a little at its start, or all the rest of it *)
TraceFills(k) ==
    {n \in 1..MaxQty : orders[k].filled + n <= MaxQty}
        \cup {orders[k].qty - orders[k].filled}

TraceStart(q) ==
    /\ pc = "idle"
    /\ StartOrderCall("aapl", "buy", q, "record")

TraceLoopStep ==
    \/ LoopBegin
    \/ InitBookReturn(TraceQuote)
    \/ InitPlaceReturn([kind |-> "accepted"])
    \/ LoopWake
    \/ PollReturn([kind |-> "status"])
    \/ BookReturn(TraceQuote)
    \/ \E r \in CancelResponses(current_order_id) \ {RaiseResp} : CancelReturn(r)
    \/ \E r \in PlaceResponses \ {NoneResp, RaiseResp} : PlaceReturn(r)

TraceNext ==
    \/ \E q \in TraceQuantities : TraceStart(q)
    \/ TraceLoopStep
    \/ \E k \in OrderIds : \E n \in TraceFills(k) : VenueFill(k, n)

TraceSpec == Init /\ [][TraceNext]_vars

(* The controller started again and again, at a gateway that answers and   *)
(* a venue that fills: start_order has no guard, so it is called at any    *)
(* point, also while a loop task is alive.  That task then runs on beside  *)
(* the new one over the same fields; the executions are followed up to     *)
(* such a start and not beyond it.                                         *)
StartSymbols == {"aapl"}

StartSides == {"buy", "SELL"}

StartOrderAnew(sym, sd, q) ==
    /\ orphans = 0
    /\ StartOrderCall(sym, sd, q, "discard")

RestartLoopStep ==
    /\ orphans = 0
    /\ LoopStepAnswered

RestartFill(k, n) ==
    /\ orphans = 0
    /\ VenueFill(k, n)

RestartNext ==
    \/ \E sym \in StartSymbols, sd \in StartSides, q \in 1..MaxQty :
          StartOrderAnew(sym, sd, q)
    \/ RestartLoopStep
    \/ \E k \in OrderIds, n \in 1..MaxQty : RestartFill(k, n)

RestartSpec == Init /\ [][RestartNext]_vars

(* The controller as its buttons drive it: pause() and resume() while an   *)
(* execution is under way, stop() at any point of it, and start_order once *)
(* the loop task has ended; a gateway that answers, a venue that fills     *)
(* nothing                                                                 *)
PauseRunning ==
    /\ LoopAlive
    /\ Pause

ResumeRunning ==
    /\ LoopAlive
    /\ Resume

StartOrderAfter(sd, q) ==
    /\ ~LoopAlive
    /\ stop_pc = "idle"
    /\ StartOrderCall("aapl", sd, q, "discard")

PausedStartNext ==
    \/ \E sd \in Sides, q \in 1..MaxQty : StartOrderAfter(sd, q)
    \/ PauseRunning
    \/ ResumeRunning
    \/ LoopStepAnswered
    \/ \E d \in BOOLEAN : StopCall(d)
    \/ \E r \in CancelResponses(stop_target), d \in BOOLEAN :
          StopCancelReturn(r, d)

PausedStartSpec == Init /\ [][PausedStartNext]_vars

(* One execution and stop() at a venue where every cancel succeeds: a      *)
(* working order is cancelled, and an order that is gone already stays as  *)
(* it is.  The gateway answers every call, the venue fills nothing, and a  *)
(* request that is under way when the task is cancelled does not arrive.   *)
CancelAnswer(id) ==
    IF id \in OrderIds /\ Working(id) THEN [kind |-> "ok"] ELSE [kind |-> "fail"]

LoopStepCancelling ==
    \/ LoopBegin
    \/ \E r \in Quotes : InitBookReturn(r)
    \/ \E r \in PlaceResponses \ {RaiseResp} : InitPlaceReturn(r)
    \/ LoopWake
    \/ PollReturn([kind |-> "status"])
    \/ \E r \in Quotes : BookReturn(r)
    \/ CancelReturn(CancelAnswer(current_order_id))
    \/ \E r \in PlaceResponses \ {RaiseResp} : PlaceReturn(r)

StopCleanNext ==
    \/ \E sd \in Sides, q \in 1..MaxQty : StartOrder(sd, q)
    \/ LoopStepCancelling
    \/ StopCall(FALSE)
    \/ StopCancelReturn(CancelAnswer(stop_target), FALSE)

StopCleanSpec == Init /\ [][StopCleanNext]_vars

(* The execution over quotes as the quote service sends them: a quote is a *)
(* dict that may lack its bidPrice or its askPrice, and get_order_book     *)
(* reads either with quote.get(..., 0)                                     *)
QuoteFields == {"bidPrice", "askPrice"}

QuoteDicts ==
    {[fields |-> f, bidPrice |-> q.bid, askPrice |-> q.ask] :
        q \in Quotes, f \in SUBSET QuoteFields}

QuoteGet(quote, field, value) ==
    IF field \in quote.fields THEN value ELSE 0

QuoteRead(quote) ==
    [kind |-> "quote",
     bid |-> QuoteGet(quote, "bidPrice", quote.bidPrice),
     ask |-> QuoteGet(quote, "askPrice", quote.askPrice)]

LoopStepQuoted ==
    \/ LoopBegin
    \/ \E quote \in QuoteDicts : InitBookReturn(QuoteRead(quote))
    \/ \E r \in PlaceResponses \ {RaiseResp} : InitPlaceReturn(r)
    \/ LoopWake
    \/ PollReturn([kind |-> "status"])
    \/ \E quote \in QuoteDicts : BookReturn(QuoteRead(quote))
    \/ CancelReturn(CancelAnswer(current_order_id))
    \/ \E r \in PlaceResponses \ {RaiseResp} : PlaceReturn(r)

QuotedNext ==
    \/ \E sd \in Sides, q \in 1..MaxQty : StartOrder(sd, q)
    \/ LoopStepQuoted

QuotedSpec == Init /\ [][QuotedNext]_vars

----------------------------------------------------------------------------
(* The Level 2 feed and the readers of the book.  _process_book_data and   *)
(* the readers are plain functions called on the event loop: a handler     *)
(* that has been called runs to its end before anything else runs.         *)

HandlerPreempted == TRUE

(* Nothing else runs on the event loop while a handler is between two of   *)
(* its statements: _process_book_data has no await                         *)
EventLoopFree == feed_pc = "idle"

(* init_streaming, which authenticate() runs: the handlers are registered  *)
(* and the stream client logs in; use_level2 tells whether that worked     *)
InitStreaming(logged_in) ==
    /\ engine = "L2"
    /\ EventLoopFree
    /\ use_level2' = logged_in
    /\ last_read' = NoRead
    /\ snapshot' = IF snapshot.pc = "get_quote" THEN snapshot ELSE NoSnapshot
    /\ UNCHANGED <<books, feed_pc, feed_item, books_before, executionVars>>

(* A stream handler is called with a content item: symbol = key.upper(),   *)
(* and an item without key is skipped.  What readers got before is out of  *)
(* date from here on.                                                      *)
FeedArrive(item, exchange) ==
    /\ engine = "L2"
    /\ use_level2
    /\ EventLoopFree
    /\ IF Upper(item.key) = ""
       THEN UNCHANGED <<feed_pc, feed_item, books_before>>
       ELSE /\ feed_pc' = "bids"
            /\ feed_item' = item
            /\ books_before' = books
    /\ last_read' = NoRead
    /\ snapshot' = IF snapshot.pc = "get_quote" THEN snapshot ELSE NoSnapshot
    /\ UNCHANGED <<books, use_level2, executionVars>>

(* The books the handler leaves when an exception takes it to its except   *)
(* clause: what it has assigned stays                                      *)
HandlerFailed == books

(* The bids of the item are processed *)
FeedBids ==
    /\ feed_pc = "bids"
    /\ IF "BOOK_BID" \in feed_item.fields /\ ~Converts(feed_item.BOOK_BID)
       THEN /\ books' = HandlerFailed
            /\ feed_pc' = "idle"
            /\ feed_item' = NoItem
            /\ books_before' = EmptyDict
       ELSE /\ books' = AssignBids(books, feed_item)
            /\ feed_pc' = "asks"
            /\ UNCHANGED <<feed_item, books_before>>
    /\ UNCHANGED <<last_read, use_level2, snapshot, executionVars>>

(* The asks of the item are processed and the handler returns *)
FeedAsks ==
    /\ feed_pc = "asks"
    /\ books' = IF "BOOK_ASK" \in feed_item.fields /\ ~Converts(feed_item.BOOK_ASK)
                THEN HandlerFailed
                ELSE AssignAsks(books, feed_item)
    /\ feed_pc' = "idle"
    /\ feed_item' = NoItem
    /\ books_before' = EmptyDict
    /\ UNCHANGED <<last_read, use_level2, snapshot, executionVars>>

UsesLevel2WithoutStream(active, top_of_book) == top_of_book # NoneResp

(* The test of get_order_book for its Level 2 branch *)
UsesLevel2(active, top_of_book) == active /\ top_of_book # NoneResp

(* The Level 2 book get_order_book returns, and its Level 1 book *)
Level2Book(symbol, top_of_book) ==
    [pc |-> "returned", symbol |-> symbol, source |-> "Level 2", fetches |-> 0,
     bid |-> top_of_book.bid, ask |-> top_of_book.ask,
     tick_size |-> TickSize(top_of_book.bid)]

Level1Book(symbol, quote) ==
    [pc |-> "returned", symbol |-> symbol, source |-> "Level 1", fetches |-> 1,
     bid |-> GetOrderBook(quote).bid, ask |-> GetOrderBook(quote).ask,
     tick_size |-> GetOrderBook(quote).tick_size]

(* get_order_book returned None, or left with the error of get_quote *)
NoOrderBook(symbol) ==
    [pc |-> "returned", symbol |-> symbol, source |-> "none", fetches |-> 1,
     bid |-> 0, ask |-> 0, tick_size |-> 0]

OrderBookError(symbol) ==
    [pc |-> "raised", symbol |-> symbol, source |-> "none", fetches |-> 1,
     bid |-> 0, ask |-> 0, tick_size |-> 0]

(* get_order_book is called: with use_level2 it reads the top of the book, *)
(* and on a top it answers with the tick of the bid; otherwise it goes on  *)
(* to get_quote and is suspended there                                     *)
ReadOrderBook(symbol) ==
    /\ engine = "L2"
    /\ EventLoopFree
    /\ snapshot.pc # "get_quote"
    /\ LET top_of_book == GetTopOfBook(books, symbol)
       IN  /\ last_read' =
                 IF use_level2
                 THEN [op |-> "order_book", symbol |-> symbol,
                       top |-> top_of_book,
                       tick_size |-> IF top_of_book = NoneResp THEN 0
                                     ELSE TickSize(top_of_book.bid)]
                 ELSE NoRead
           /\ snapshot' =
                 IF UsesLevel2(use_level2, top_of_book)
                 THEN Level2Book(symbol, top_of_book)
                 ELSE [pc |-> "get_quote", symbol |-> symbol]
    /\ UNCHANGED <<books, feed_pc, feed_item, books_before, use_level2,
                   executionVars>>

(* The get_quote of get_order_book returns *)
QuoteReturn(r) ==
    /\ EventLoopFree
    /\ snapshot.pc = "get_quote"
    /\ snapshot' = CASE r.kind = "quote" -> Level1Book(snapshot.symbol, r)
                     [] r.kind = "none"  -> NoOrderBook(snapshot.symbol)
                     [] OTHER            -> OrderBookError(snapshot.symbol)
    /\ last_read' = NoRead
    /\ UNCHANGED <<books, feed_pc, feed_item, books_before, use_level2,
                   executionVars>>

(* get_book_depth_display reads the depth of the book *)
ReadDepth(symbol, levels) ==
    /\ engine = "L2"
    /\ use_level2
    /\ EventLoopFree
    /\ last_read' = [op |-> "depth", symbol |-> symbol, levels |-> levels,
                     depth |-> GetBookDepth(books, symbol, levels)]
    /\ snapshot' = IF snapshot.pc = "get_quote" THEN snapshot ELSE NoSnapshot
    /\ UNCHANGED <<books, feed_pc, feed_item, books_before, use_level2,
                   executionVars>>

BookNext ==
    \/ \E logged_in \in BOOLEAN : InitStreaming(logged_in)
    \/ \E item \in FeedItems, exchange \in Exchanges : FeedArrive(item, exchange)
    \/ FeedBids
    \/ FeedAsks
    \/ \E symbol \in ReadSymbols : ReadOrderBook(symbol)
    \/ \E r \in BookResponses : QuoteReturn(r)
    \/ \E symbol \in ReadSymbols, levels \in (0..MaxLevels) \cup {DefaultLevels} :
          ReadDepth(symbol, levels)

BookSpec == Init /\ [][BookNext]_vars

(* The feed with content items of which some have a malformed level *)
FeedNext ==
    \/ InitStreaming(TRUE)
    \/ \E item \in FeedItems \cup MalformedItems, exchange \in Exchanges :
          FeedArrive(item, exchange)
    \/ FeedBids
    \/ FeedAsks

FeedSpec == Init /\ [][FeedNext]_vars

----------------------------------------------------------------------------
(* Properties *)

Started == pc # "idle"

WorkingOrders == {k \in OrderIds : Working(k)}

RECURSIVE AcceptedUpTo(_)
AcceptedUpTo(k) ==
    IF k = 0 THEN 0
    ELSE AcceptedUpTo(k - 1) + (IF orders[k].acc THEN 1 ELSE 0)

ExpectedState(i) == IF i % 2 = 1 THEN OFFSET_TICK ELSE AT_BOOK

(* C1: after start, filled_quantity + remaining_quantity = quantity, and   *)
(* neither is negative, whatever the status polls return.                  *)
C1_QuantitiesConsistent ==
    Started =>
        /\ filled_quantity + remaining_quantity = quantity
        /\ filled_quantity >= 0
        /\ remaining_quantity >= 0

(* A partial fill has been booked and the loop goes on *)
C1_Witness ==
    /\ pc = "book"
    /\ filled_quantity = 1
    /\ remaining_quantity = 1

(* C2: at most one order placed by the execution is working at the venue,  *)
(* whether the cancel before each place succeeded or failed.               *)
C2_AtMostOneWorking == Cardinality(WorkingOrders) <= 1

(* C3: once remaining_quantity is 0 the loop has exited and stays exited,  *)
(* and no place call is issued and no order is created afterwards.         *)
C3_TerminalAfterZero ==
    [][(Started /\ remaining_quantity = 0) =>
           /\ pc = "done"
           /\ ~is_running
           /\ pc' = "done"
           /\ Len(orders') = Len(orders)]_vars

(* The loop has seen the whole quantity filled and is done *)
C3_Witness ==
    /\ pc = "done"
    /\ quantity > 0
    /\ remaining_quantity = 0
    /\ filled_quantity = quantity

(* C4: when the fills of the execution's orders at the venue reach the     *)
(* total quantity, the loop eventually sees remaining_quantity = 0 and     *)
(* stops running.                                                          *)
C4_EventuallyFilled ==
    (Started /\ VenueFilledTotal >= quantity)
        ~> (remaining_quantity = 0 /\ ~is_running)

(* C5: once the running loop has polled the first replacement order,       *)
(* every fill the replaced order got before its cancel took effect is      *)
(* counted in filled_quantity.                                             *)
C5_LateFillReconciled ==
    (is_running /\ current_order_id = 2 /\ polled_id = 2
                /\ orders[1].status = "CANCELED")
        => filled_quantity >= orders[1].filled

(* C6: filled_quantity never exceeds what the venue has filled on the      *)
(* execution's orders, never decreases, and changes only when a status     *)
(* poll returns.                                                           *)
C6_NoDoubleCount ==
    /\ [](Started => filled_quantity <= VenueFilledTotal)
    /\ [][Started => /\ filled_quantity' >= filled_quantity
                     /\ (filled_quantity' # filled_quantity => pc = "poll")]_vars

(* The loop has booked a fill and the venue has filled more since *)
C6_Witness ==
    /\ filled_quantity >= 1
    /\ VenueFilledTotal > filled_quantity
    /\ pc = "sleep"

(* C7: the i-th accepted order was priced in OFFSET_TICK when i is odd and *)
(* in AT_BOOK when i is even, and current_state has toggled once per       *)
(* accepted order.                                                         *)
C7_StrictTwoCycle ==
    /\ \A k \in OrderIds :
          orders[k].acc => orders[k].ostate = ExpectedState(AcceptedUpTo(k))
    /\ pc \notin {"idle", "created"} =>
          current_state = ExpectedState(AcceptedUpTo(Len(orders)) + 1)

(* Two orders were accepted and current_state is back at OFFSET_TICK *)
C7_Witness ==
    /\ Len(orders) = 2
    /\ orders[1].acc
    /\ orders[2].acc
    /\ orders[2].ostate = AT_BOOK
    /\ current_state = OFFSET_TICK
    /\ pc = "sleep"

(* C8: the price and next state of calculate_next_price follow the table:  *)
(* BUY/AT_BOOK bid, BUY/OFFSET_TICK bid - tick, SELL/AT_BOOK ask,          *)
(* SELL/OFFSET_TICK ask + tick, the state toggled; at 10.00 / 10.05 the    *)
(* prices are 9.99, 10.00, 10.06 and 10.05.                                *)
C8_PricingTable ==
    /\ book # NoBook =>
          /\ (side = "BUY" /\ book.state = AT_BOOK) =>
                (new_price = book.bid /\ next_state = OFFSET_TICK)
          /\ (side = "BUY" /\ book.state = OFFSET_TICK) =>
                (new_price = book.bid - book.tick_size /\ next_state = AT_BOOK)
          /\ (side = "SELL" /\ book.state = AT_BOOK) =>
                (new_price = book.ask /\ next_state = OFFSET_TICK)
          /\ (side = "SELL" /\ book.state = OFFSET_TICK) =>
                (new_price = book.ask + book.tick_size /\ next_state = AT_BOOK)
    /\ (book # NoBook /\ book.bid = 1000000 /\ book.ask = 1005000) =>
          /\ book.tick_size = 1000
          /\ new_price = CASE side = "BUY" /\ book.state = OFFSET_TICK -> 999000
                           [] side = "BUY" /\ book.state = AT_BOOK -> 1000000
                           [] side = "SELL" /\ book.state = OFFSET_TICK -> 1006000
                           [] OTHER -> 1005000

(* A SELL priced in OFFSET_TICK at 10.00 / 10.05 *)
C8_Witness ==
    /\ side = "SELL"
    /\ book.state = OFFSET_TICK
    /\ book.ask = 1005000
    /\ new_price = 1006000

(* C9: the tick of every snapshot used for pricing is the tick of the      *)
(* touch of the execution's side: the bid for BUY, the ask for SELL.       *)
C9_TickOfTouch ==
    book # NoBook =>
        book.tick_size = TickSize(IF side = "BUY" THEN book.bid ELSE book.ask)

(* C10: the limit price of every place call in flight is the price         *)
(* calculate_next_price computed.                                          *)
C10_SubmittedPrice ==
    pc \in {"init_place", "place"} => req.price = new_price

(* C12: while the cancel of stop() is in flight, no other cancel call for  *)
(* the same order is in flight: the resting order gets one cancel call.    *)
C12_StopCancelsOnce ==
    stop_pc = "cancel" => ~(pc = "cancel" /\ current_order_id = stop_target)

C14_OneMutatingCall ==
    ~(pc \in {"init_place", "cancel", "place"} /\ stop_pc = "cancel")

(* C15: a cycle that finds the execution paused at its top issues no       *)
(* gateway call and leaves the order id, the alternation state and the     *)
(* quantities as they are, so the loop resumes from that state.            *)
C15_PausedCycleIdle ==
    [][(pc = "sleep" /\ is_paused /\ LoopCondition) =>
          /\ pc' = "sleep"
          /\ Len(orders') = Len(orders)
          /\ UNCHANGED <<current_order_id, current_state, filled_quantity,
                         remaining_quantity>>]_vars

(* A paused execution with a resting order, at the top of a cycle *)
C15_Witness ==
    /\ pc = "sleep" /\ is_paused /\ LoopCondition
    /\ current_order_id # 0 /\ Working(current_order_id)
    /\ current_state = AT_BOOK

(* C16: a step that changes the paused flag changes nothing else.          *)
C16_PauseOnlyFlag ==
    [][is_paused' # is_paused =>
          UNCHANGED <<level2Vars, self_symbol, sink, orphans,
                   engine, side, quantity, filled_quantity, remaining_quantity,
                      current_order_id, current_state, is_running, pc, book,
                      new_price, next_state, req, stop_pc, stop_target, orders,
                      polled_id>>]_vars

(* Paused while a replace is in flight, then resumed with the order still  *)
(* resting: is_paused is false again, the loop is running                  *)
C16_Witness ==
    /\ is_paused /\ is_running /\ pc = "place"
    /\ current_order_id # 0

(* The prices tickSize is probed at, besides the bids of the book *)
TickProbes == {1, SubCent, Dollar - 1, Dollar, Dollar + 1, Dollar + Cent, 2 * Dollar}

(* C11: tickSize is 0.01 for every price from 1.00 up, 1.00 included, and  *)
(* 0.0001 for every positive price below 1.00.                             *)
C11_TickSizeTotal ==
    /\ \A p \in TickProbes :
          /\ p >= Dollar => TickSize(p) = Cent
          /\ p < Dollar => TickSize(p) = SubCent
    /\ (last_read.op = "order_book" /\ last_read.top # NoneResp) =>
          /\ last_read.top.bid >= Dollar => last_read.tick_size = Cent
          /\ last_read.top.bid < Dollar => last_read.tick_size = SubCent

(* get_order_book priced its tick from a best bid of exactly 1.00 *)
C11_Witness ==
    /\ last_read.op = "order_book" /\ last_read.top # NoneResp
    /\ last_read.top.bid = Dollar /\ last_read.tick_size = Cent

(* The books a read concurrent with the handler in progress may see: the   *)
(* book before the update and the book after it                            *)
BooksBeforeUpdate == IF feed_pc = "idle" THEN books ELSE books_before

BooksAfterUpdate ==
    IF feed_pc = "idle" THEN books
    ELSE AssignAsks(AssignBids(books_before, feed_item), feed_item)

LevelPrices(levels) ==
    {levels[i].price : i \in {j \in 1..Len(levels) : levels[j].has_price}}

LastVolume(levels, p) ==
    LET i == CHOOSE j \in 1..Len(levels) :
                 /\ levels[j].has_price /\ levels[j].price = p
                 /\ \A h \in (j + 1)..Len(levels) :
                       ~(levels[h].has_price /\ levels[h].price = p)
    IN  levels[i].volume

(* The step stores exactly the level list on the given side of the symbol  *)
(* and leaves the other side and every other symbol alone                  *)
SideReplaced(symbol, sd, other, levels) ==
    /\ symbol \in DOMAIN books'
    /\ DOMAIN books'[symbol][sd] = LevelPrices(levels)
    /\ \A p \in LevelPrices(levels) : books'[symbol][sd][p] = LastVolume(levels, p)
    /\ books'[symbol][other] = BookOf(books, symbol)[other]
    /\ DOMAIN books' = DOMAIN books \cup {symbol}
    /\ \A t \in DOMAIN books \ {symbol} : books'[t] = books[t]

(* C18: processing a side of an item stores exactly that level set on that *)
(* side of that symbol, whatever was there and whichever exchange sent it, *)
(* and changes nothing else in the books.                                  *)
C18_UpdateReplacesSide ==
    [][/\ (feed_pc = "bids" /\ "BOOK_BID" \in feed_item.fields) =>
            SideReplaced(Upper(feed_item.key), "bids", "asks", feed_item.BOOK_BID)
       /\ (feed_pc = "asks" /\ "BOOK_ASK" \in feed_item.fields) =>
            SideReplaced(Upper(feed_item.key), "asks", "bids", feed_item.BOOK_ASK)
       /\ (feed_pc = "bids" /\ "BOOK_BID" \notin feed_item.fields) => books' = books
       /\ (feed_pc = "asks" /\ "BOOK_ASK" \notin feed_item.fields) => books' = books
       /\ feed_pc = "idle" => books' = books]_vars

(* The bids of a symbol have just been replaced: a level of the old set is *)
(* gone, the asks are the old ones, and another symbol has a book          *)
C18_Witness ==
    /\ feed_pc = "asks" /\ "BOOK_BID" \in feed_item.fields
    /\ Upper(feed_item.key) \in DOMAIN books_before
    /\ DOMAIN books_before[Upper(feed_item.key)].bids
          \ DOMAIN books[Upper(feed_item.key)].bids # {}
    /\ DOMAIN books[Upper(feed_item.key)].bids # {}
    /\ DOMAIN books[Upper(feed_item.key)].asks # {}
    /\ DOMAIN books \ {Upper(feed_item.key)} # {}

(* C19: the top of the book is None for an unknown symbol or an empty      *)
(* side; otherwise its bid is the highest bid price, its ask the lowest    *)
(* ask price, and the sizes are the ones stored at these prices.           *)
C19_BestBidAsk ==
    last_read.op = "order_book" =>
        LET symbol == Upper(last_read.symbol)
            top    == last_read.top
        IN  IF \/ symbol \notin DOMAIN books
               \/ DOMAIN books[symbol].bids = {}
               \/ DOMAIN books[symbol].asks = {}
            THEN top = NoneResp
            ELSE /\ top # NoneResp
                 /\ top.bid \in DOMAIN books[symbol].bids
                 /\ \A p \in DOMAIN books[symbol].bids : p <= top.bid
                 /\ top.ask \in DOMAIN books[symbol].asks
                 /\ \A p \in DOMAIN books[symbol].asks : p >= top.ask
                 /\ top.bid_size = books[symbol].bids[top.bid]
                 /\ top.ask_size = books[symbol].asks[top.ask]

(* A top read from a book with three bid levels and three ask levels *)
C19_Witness ==
    /\ last_read.op = "order_book" /\ last_read.top # NoneResp
    /\ Cardinality(DOMAIN books[Upper(last_read.symbol)].bids) = 3
    /\ Cardinality(DOMAIN books[Upper(last_read.symbol)].asks) = 3
    /\ last_read.top.bid = 100010 /\ last_read.top.ask = 99990

(* The rows are the best levels of the side d: at most levels of them, as  *)
(* many as the side has otherwise, in strict order, with the stored sizes  *)
BestRows(rows, d, levels, Better(_, _)) ==
    /\ Len(rows) <= levels
    /\ Len(rows) = IF Cardinality(DOMAIN d) < levels
                   THEN Cardinality(DOMAIN d) ELSE levels
    /\ \A i \in 1..Len(rows) : rows[i][1] \in DOMAIN d /\ rows[i][2] = d[rows[i][1]]
    /\ \A i \in 1..(Len(rows) - 1) : Better(rows[i][1], rows[i + 1][1])
    /\ \A p \in DOMAIN d \ {rows[i][1] : i \in 1..Len(rows)} :
          \A i \in 1..Len(rows) : Better(rows[i][1], p)

Higher(p, q) == p > q

Lower(p, q) == p < q

(* C20: the depth of a book has at most levels bid rows, strictly          *)
(* descending, and at most levels ask rows, strictly ascending, the best   *)
(* prices of each side; fewer when the side is shorter, none for an        *)
(* unknown symbol.                                                         *)
C20_DepthRows ==
    last_read.op = "depth" =>
        LET symbol == Upper(last_read.symbol)
            depth  == last_read.depth
        IN  IF symbol \notin DOMAIN books
            THEN depth.bids = << >> /\ depth.asks = << >>
            ELSE /\ BestRows(depth.bids, books[symbol].bids, last_read.levels, Higher)
                 /\ BestRows(depth.asks, books[symbol].asks, last_read.levels, Lower)

(* Two rows a side were read from a book with three levels a side *)
C20_Witness ==
    /\ last_read.op = "depth" /\ last_read.levels = 2
    /\ Upper(last_read.symbol) \in DOMAIN books
    /\ Cardinality(DOMAIN books[Upper(last_read.symbol)].bids) = 3
    /\ Cardinality(DOMAIN books[Upper(last_read.symbol)].asks) = 3
    /\ Len(last_read.depth.bids) = 2 /\ Len(last_read.depth.asks) = 2

(* C21: a call of get_order_book answers from Level 2, without a quote     *)
(* fetch, exactly when use_level2 is set and the book has a top for the    *)
(* symbol; otherwise it makes one quote fetch and answers from Level 1, or *)
(* with None when the fetch brought no quote.                              *)
C21_SnapshotSource ==
    [][/\ (snapshot.pc # "get_quote" /\ snapshot'.pc = "get_quote") =>
             ~(use_level2 /\ GetTopOfBook(books, snapshot'.symbol) # NoneResp)
       /\ (/\ snapshot'.pc = "returned" /\ snapshot'.source = "Level 2"
           /\ snapshot' # snapshot) =>
             /\ snapshot.pc # "get_quote"
             /\ use_level2
             /\ GetTopOfBook(books, snapshot'.symbol) # NoneResp
             /\ snapshot'.fetches = 0
             /\ snapshot'.bid = GetTopOfBook(books, snapshot'.symbol).bid
             /\ snapshot'.ask = GetTopOfBook(books, snapshot'.symbol).ask
       /\ (snapshot.pc = "get_quote" /\ snapshot'.pc = "returned") =>
             /\ snapshot'.source \in {"Level 1", "none"}
             /\ snapshot'.fetches = 1
             /\ snapshot'.symbol = snapshot.symbol
       /\ (/\ snapshot'.pc = "returned"
           /\ snapshot'.source \in {"Level 1", "none"}
           /\ snapshot' # snapshot) =>
             snapshot.pc = "get_quote"]_vars

(* With the stream logged in and a top in the book for another symbol, a   *)
(* symbol without a top was answered from Level 1                          *)
C21_Witness ==
    /\ snapshot.pc = "returned" /\ snapshot.source = "Level 1"
    /\ snapshot.fetches = 1
    /\ use_level2
    /\ GetTopOfBook(books, snapshot.symbol) = NoneResp
    /\ \E symbol \in ReadSymbols : GetTopOfBook(books, symbol) # NoneResp

(* C22: the cycle that gets no snapshot warns and goes to sleep: it issues  *)
(* no cancel and no place, leaves the order id, the alternation state, the *)
(* quantities and the orders as they are, keeps the execution running, and *)
(* the next active cycle starts with the status poll again.                *)
C22_NoSnapshotNotFatal ==
    [][/\ ("warning_no_data" \in log' /\ "warning_no_data" \notin log) =>
             /\ pc = "book" /\ pc' = "sleep"
             /\ req' = NoReq
             /\ is_running' = is_running
             /\ UNCHANGED <<current_order_id, current_state, orders,
                            filled_quantity, remaining_quantity>>
       /\ (/\ pc = "sleep" /\ "warning_no_data" \in log
           /\ LoopCondition /\ ~is_paused /\ pc' # pc) => pc' = "poll"]_vars

(* A running execution with a working order sleeps after the warning *)
C22_Witness ==
    /\ pc = "sleep" /\ "warning_no_data" \in log
    /\ is_running /\ remaining_quantity > 0
    /\ current_order_id # 0 /\ Working(current_order_id)
    /\ current_state = AT_BOOK

(* C23: when the place of a replace returns no order id, the alternation   *)
(* state and the order id stay as they are, the warning is emitted, the    *)
(* execution keeps running and sleeps; nothing changes the state up to the *)
(* pricing of the next cycle, which prices with it.                        *)
C23_RejectedReplaceRetried ==
    [][/\ (/\ pc = "place" /\ pc' \notin {"place", "done"}
           /\ Len(orders') = Len(orders)) =>
             /\ current_state' = current_state
             /\ current_order_id' = current_order_id
             /\ "warning_replace_failed" \in log'
             /\ is_running' = is_running
             /\ pc' = "sleep"
       /\ (pc \in {"sleep", "poll"} /\ pc' \in {"sleep", "poll", "book"}) =>
             current_state' = current_state
       /\ (pc = "book" /\ pc' = "cancel") =>
             /\ book'.state = current_state
             /\ new_price' = CalcNextPrice(side, current_state, book').price]_vars

(* The first replace was refused: the execution sleeps with the warning,   *)
(* still at the touch, and the order it names has been cancelled           *)
C23_Witness ==
    /\ pc = "sleep" /\ "warning_replace_failed" \in log
    /\ is_running /\ remaining_quantity > 0
    /\ current_state = AT_BOOK
    /\ Len(orders) = 1 /\ current_order_id = 1

(* C24: in a cycle whose status poll reported CANCELED, REJECTED or EXPIRED *)
(* with a quantity remaining, no cancel call is issued for the order.      *)
C24_NoCancelOfGoneOrder ==
    ~(/\ pc = "cancel"
      /\ "order_status" \in log
      /\ remaining_quantity > 0
      /\ orders[current_order_id].status \in ReportedStatuses)

(* C25: without an initial snapshot the execution reports the error and    *)
(* ends with no place call made; when the initial place returns no order   *)
(* id it reports the error and ends with no order id and the state still   *)
(* OFFSET_TICK; only an accepted initial place records the order id and    *)
(* takes the state from OFFSET_TICK to AT_BOOK, and no cycle polls before. *)
C25_InitialPlacement ==
    [][/\ (pc = "init_book" /\ pc' = "done") =>
             /\ "error_no_data" \in log' \/ "error" \in log'
             /\ "loop_stopped" \in log'
             /\ ~is_running'
             /\ req' = NoReq /\ orders' = orders /\ orders = << >>
             /\ current_order_id' = 0
       /\ "error_no_data" \in log' => pc' = "done" /\ orders' = << >>
       /\ (pc = "init_place" /\ pc' = "done") =>
             /\ "error_initial_place" \in log' \/ "error" \in log'
             /\ "loop_stopped" \in log'
             /\ ~is_running'
             /\ orders' = orders
             /\ current_order_id' = 0
             /\ current_state' = OFFSET_TICK
       /\ (pc = "init_place" /\ pc' = "sleep") =>
             /\ Len(orders') = Len(orders) + 1
             /\ current_order_id = 0 /\ current_order_id' = Len(orders')
             /\ current_state = OFFSET_TICK /\ current_state' = AT_BOOK
             /\ "order_placed" \in log'
       /\ pc' = "poll" => current_order_id' # 0 /\ Len(orders') > 0]_vars

(* The initial place returned no order id: the execution has ended with    *)
(* the error, no order and the state not advanced                          *)
C25_Witness ==
    /\ pc = "done" /\ ~is_running
    /\ "error_initial_place" \in log /\ "placing_initial" \in log
    /\ orders = << >> /\ current_order_id = 0
    /\ current_state = OFFSET_TICK

(* The events that tell why a loop ended other than by a gateway error *)
OtherEndings == {"error_no_data", "error_initial_place", "fully_filled"}

(* C26: an error raised by a gateway call of the loop ends the execution:  *)
(* the error event is emitted, is_running becomes false, the loop is done  *)
(* with no request under way, and a loop that is done issues no call.      *)
C26_GatewayErrorTerminates ==
    [][/\ ("error" \in log' /\ "error" \notin log) =>
             /\ pc \in {"init_book", "init_place", "poll", "book", "cancel",
                         "place"}
             /\ pc' = "done"
             /\ ~is_running'
             /\ req' = NoReq
             /\ "loop_stopped" \in log'
       /\ (pc # "done" /\ pc' = "done" /\ log' \cap OtherEndings = {}) =>
             "error" \in log'
       /\ pc = "done" => pc' = "done" /\ req' = NoReq /\ ~is_running']_vars

(* The place of a replace raised after the cancel had gone through: the    *)
(* execution has ended with the error and a quantity remaining             *)
C26_Witness ==
    /\ pc = "done" /\ ~is_running
    /\ "error" \in log /\ "replacing" \in log
    /\ remaining_quantity > 0
    /\ current_order_id # 0 /\ ~Working(current_order_id)

(* C30: the initial phase and every cycle that was not paused have emitted *)
(* at least one event by the time the loop sleeps or ends, the cycle whose *)
(* status poll brought nothing included.                                   *)
C30_NoSilentCycle ==
    (sink = "record" /\ pc \in {"sleep", "done"}) => log # {}

(* No status poll has ever been answered, and the cycle that has just      *)
(* ended got no book either: the warning is all it emitted                 *)
C30_Witness ==
    /\ sink = "record" /\ pc = "sleep"
    /\ current_order_id # 0 /\ polled_id = 0
    /\ log = {"warning_no_data"}

(* C27: over a book that stays at 50.00 / 50.02 a BUY is first placed at   *)
(* 49.99, the bid less a tick, for the whole quantity; the first replace   *)
(* is priced at 50.00, the bid, for what remains, the whole quantity when  *)
(* nothing has filled; and the poll that reports the whole quantity filled *)
(* ends the loop with nothing remaining and no order placed after it.      *)
C27_TraceOfABuy ==
    [][/\ pc' = "init_place" =>
             /\ side' = "BUY"
             /\ book'.state = OFFSET_TICK
             /\ req'.price = TraceQuote.bid - Cent
             /\ req'.quantity = quantity'
       /\ (pc' = "place" /\ Len(orders') = 1) =>
             /\ book'.state = AT_BOOK
             /\ req'.price = TraceQuote.bid
             /\ req'.quantity = remaining_quantity'
             /\ filled_quantity' = 0 => req'.quantity = quantity'
       /\ (/\ pc = "poll" /\ pc' # "poll"
           /\ orders[current_order_id].filled = quantity) =>
             /\ pc' = "done" /\ ~is_running'
             /\ filled_quantity' = quantity /\ remaining_quantity' = 0
       /\ pc = "done" => pc' = "done" /\ Len(orders') = Len(orders)]_vars

(* 100 were bought: the first order was replaced unfilled, the second one  *)
(* filled whole, and the loop has ended                                    *)
C27_Witness ==
    /\ pc = "done" /\ ~is_running
    /\ quantity = TraceQty /\ filled_quantity = TraceQty
    /\ remaining_quantity = 0
    /\ Len(orders) = 2
    /\ orders[1].qty = TraceQty /\ orders[1].filled = 0
    /\ orders[1].status = "CANCELED" /\ orders[1].ostate = OFFSET_TICK
    /\ orders[2].qty = TraceQty /\ orders[2].filled = TraceQty
    /\ orders[2].ostate = AT_BOOK

(* C28: no loop task is alive beside the one the controller holds.         *)
C28_OneLoopPerController == orphans = 0

(* C29: a start_order on a controller whose loop task, if any, has ended   *)
(* sets the symbol and the side in upper case, filled_quantity to 0 and    *)
(* remaining_quantity to the quantity given, and the loop prices the       *)
(* initial order in OFFSET_TICK for that quantity, whatever the execution  *)
(* before has left in the fields.                                          *)
C29_StartInitialises ==
    [][orphans' = 0 =>
         /\ (pc # "created" /\ pc' = "created") =>
               /\ self_symbol' = "AAPL"
               /\ side' \in {"BUY", "SELL"}
               /\ quantity' >= 1
         /\ pc' \in {"created", "init_book", "init_place"} =>
               /\ filled_quantity' = 0
               /\ remaining_quantity' = quantity'
         /\ pc' = "init_book" => current_state' = OFFSET_TICK
         /\ pc' = "init_place" =>
               /\ book'.state = OFFSET_TICK
               /\ req'.quantity = quantity'
               /\ new_price' = CalcNextPrice(side', OFFSET_TICK, book').price]_vars

(* The execution before was filled on an order placed in OFFSET_TICK, which *)
(* left AT_BOOK and its order id in the fields; the initial order of the   *)
(* next one, a BUY given as "buy", is priced in OFFSET_TICK                *)
C29_Witness ==
    /\ orphans = 0 /\ pc = "init_place"
    /\ side = "BUY" /\ self_symbol = "AAPL"
    /\ current_order_id # 0
    /\ orders[current_order_id].ostate = OFFSET_TICK
    /\ orders[current_order_id].filled > 0
    /\ filled_quantity = 0 /\ remaining_quantity = quantity
    /\ book.state = OFFSET_TICK

(* C31: what the venue has filled on the orders of the execution is never  *)
(* more than the quantity the execution was started with.                  *)
C31_NoOverfill == Started => VenueFilledTotal <= quantity

(* C33: the place call of the loop, initial or of a replace, asks for the   *)
(* remaining_quantity of that moment, which is positive, and the order the *)
(* venue books is for that quantity.                                       *)
C33_OrderForRemaining ==
    /\ pc \in {"init_place", "place"} =>
          /\ req.quantity = remaining_quantity
          /\ req.quantity > 0
    /\ \A k \in OrderIds : orders[k].qty > 0 /\ orders[k].qty <= quantity
    /\ (pc = "sleep" /\ current_order_id = Len(orders)
           /\ polled_id # current_order_id) =>
          orders[current_order_id].qty = remaining_quantity

(* After a partial fill the place of the replace asks for what remains *)
C33_Witness ==
    /\ pc = "place"
    /\ quantity = 2 /\ filled_quantity = 1
    /\ req.quantity = 1 /\ remaining_quantity = 1

(* C34: start_order leaves the controller not paused, whatever pause(),    *)
(* resume() and stop() calls came before it.                               *)
C34_StartedNotPaused ==
    [][(pc # "created" /\ pc' = "created") => ~is_paused']_vars

(* C32: once the loop has ended and no stop() is under way, none of the    *)
(* orders of an execution that stop() ended is working at the venue.       *)
C32_NoWorkingAfterStop ==
    (pc = "done" /\ stop_pc = "idle") => \A k \in OrderIds : ~Working(k)

(* C35: the limit price of every place call is greater than 0, also when   *)
(* the quote lacks its bid or its ask.                                     *)
C35_PricePositive ==
    pc \in {"init_place", "place"} => req.price > 0

(* C37: with use_level2 not set, the limit price the depth engine submits  *)
(* for the price the loop has computed is the one the quote-only engine    *)
(* submits for it; the loops of the two engines are the same up to there.  *)
C37_EnginesSubmitAlike ==
    (~use_level2 /\ pc \in {"init_place", "place"}) =>
        PlaceOrderPrice("L1", new_price) = PlaceOrderPrice("L2", new_price)

(* C36: when the handler ends on an item that has a malformed level, the   *)
(* books are the ones from before the item.                                *)
C36_FailedItemNotApplied ==
    [][(/\ feed_pc # "idle" /\ feed_pc' = "idle"
        /\ ~(Converts(feed_item.BOOK_BID) /\ Converts(feed_item.BOOK_ASK))) =>
          books' = books_before]_vars

====
